---- MODULE Spec2Model ----
(***************************************************************************)
(* carboxyl_window, src/source_win.rs: EventSinks::dispatch, the three     *)
(* EventSource adapters over a shared window handle, SourceWindow::run_with *)
(* (the fixed-tick loop) and the StreamingWindow accessors.                 *)
(*                                                                         *)
(* f64 values (fps, cursor, scroll deltas) are modelled by integers: every *)
(* value used is integral and small, so f64 arithmetic on it is exact.     *)
(***************************************************************************)
EXTENDS Integers, Sequences, FiniteSets, TLC

(* ---------------- bounds of the model ---------------- *)
MaxTime    == 300000000   \* the clock is not advanced past this reading (ns)
MaxEvents  == 2           \* events the window delivers under Spec and SpecTiming
MaxSigEvents == 1         \* events the window delivers under SpecSignals
MaxRuns    == 2           \* calls of run_with in one behaviour
MaxIters   == 2           \* loop iterations followed in one call of run_with
MaxSignals == 2           \* signals obtained from the accessors
SchedKinds == 2           \* Spec and SpecTiming deliver the first SchedKinds
                          \* events of EventList

(* ---------------- program constants ---------------- *)
NsPerSec == 1000000000    \* the literal 1e9 of run_with

\* fps arguments tried: two rejected by the assertion, 10 (tick 100 ms)
\* and one above 1e9
FpsValues == {0 - 5, 0, 10, 2000000000}

\* steps by which the monotonic clock advances (ns): half a tick of 100 ms
\* and two and a half
ClockSteps == {50000000, 250000000}

Adapters == {"RefCell", "RwLock", "Mutex"}

(* ---------------- input::Input ---------------- *)
Press(b)          == [tag |-> "Press", button |-> b]
Release(b)        == [tag |-> "Release", button |-> b]
MouseCursor(x, y) == [tag |-> "Move", motion |-> "MouseCursor", x |-> x, y |-> y]
MouseScroll(x, y) == [tag |-> "Move", motion |-> "MouseScroll", x |-> x, y |-> y]
MouseRelative(x, y) == [tag |-> "Move", motion |-> "MouseRelative", x |-> x, y |-> y]
Text(s)           == [tag |-> "Text", text |-> s]
Resize(w, h)      == [tag |-> "Resize", width |-> w, height |-> h]
Focus(flag)       == [tag |-> "Focus", flag |-> flag]

\* the events the window system may deliver (a list: the values are of
\* different shapes)
EventList == << MouseRelative(5, 5), Press(1), Text("a"), Release(1),
                MouseScroll(1, 2), MouseScroll(3, 0 - 1), MouseCursor(1, 2),
                Resize(8, 6), Focus(FALSE), Focus(TRUE) >>

NoEvent == [tag |-> "None"]

VARIABLES
  adapter,      \* which EventSource impl wraps the window handle
  pc,           \* position of the thread that owns the SourceWindow
  fps,          \* argument of the current run_with call
  tick_length, time, next_tick,   \* locals of run_with
  guard,        \* guard on the handle held by the run_with thread
  clock,        \* precise_time_ns()
  queue,        \* the window's pending events, each with its arrival number
  closed,       \* the window's should_close flag
  poisoned,     \* the lock around the window is poisoned
  otherGuard,   \* guard held by another holder of the shared handle
  arrived,      \* number of events delivered to the window so far
  signals,      \* the signals the accessors have returned so far
  runs,         \* calls of run_with so far
  touched,      \* what the current run_with call has invoked so far
  nCloseFalse,  \* should_close calls of this run that returned false
  iters,        \* completed loop bodies of this run
  lastClose,    \* result of the latest should_close call of this run
  sawNone,      \* poll_event has reported none in the current iteration
  lastSeq,      \* arrival number of the latest event dispatched
  lastEvent,    \* the latest event dispatched
  lastPushes,   \* the channel pushes the latest dispatch made
  latest,       \* per hold channel, the latest value pushed (the default before)
  wheelTotal,   \* sum of the values pushed on the wheel channel
  branch,       \* branch taken by the current / latest iteration
  iterStart,    \* next_tick when the current iteration sampled the time
  rendersIter,  \* render invocations of the current iteration
  drainsIter,   \* completed drains of the current iteration
  lastRenderAt, \* clock reading at the latest render invocation of this run
  renderGap,    \* clock time between the two latest render invocations
  slept         \* argument of the latest thread::sleep_ms call

schedVars == << pc, fps, tick_length, time, next_tick, guard >>
envVars   == << clock, queue, closed, poisoned, otherGuard, arrived >>
runObs    == << touched, nCloseFalse, iters, lastClose >>
iterObs   == << sawNone, branch, iterStart, rendersIter, drainsIter >>
dispObs   == << lastSeq, lastEvent, lastPushes, latest, wheelTotal >>
timeObs   == << lastRenderAt, renderGap, slept >>
vars == << adapter, schedVars, envVars, signals, runs, runObs, iterObs,
           dispObs, timeObs >>

(* ---------------- EventSinks::dispatch ---------------- *)
Push(sink, val) == [sink |-> sink, val |-> val]

ButtonEvent(b, st) == [button |-> b, state |-> st]

\* the catch-all Move(_) arm placed before the two motion arms
DispatchMotionFirst(event) ==
  IF event.tag = "Press"
    THEN << Push("button", ButtonEvent(event.button, "Pressed")) >>
  ELSE IF event.tag = "Release"
    THEN << Push("button", ButtonEvent(event.button, "Released")) >>
  ELSE IF event.tag = "Move"
    THEN << >>
  ELSE IF event.tag = "Text"
    THEN << Push("text", event.text) >>
  ELSE IF event.tag = "Resize"
    THEN << Push("window_size", << event.width, event.height >>) >>
  ELSE << Push("focus", event.flag) >>

\* the cursor arm sending on the wheel sink
DispatchCursorOnWheel(event) ==
  IF event.tag = "Move" /\ event.motion = "MouseCursor"
    THEN << Push("mouse_wheel", << event.x, event.y >>) >>
    ELSE DispatchMotionFirst(event)

\* the resize arm sending on the window_position sink
DispatchResizeOnPosition(event) ==
  IF event.tag = "Resize"
    THEN << Push("window_position", << event.width, event.height >>) >>
  ELSE IF event.tag = "Move" /\ event.motion = "MouseCursor"
    THEN << Push("mouse_motion", << event.x, event.y >>) >>
  ELSE IF event.tag = "Move" /\ event.motion = "MouseScroll"
    THEN << Push("mouse_wheel", << event.x, event.y >>) >>
  ELSE DispatchMotionFirst(event)

\* the pushes of dispatch(event), in match-arm order
Dispatch(event) ==
  IF event.tag = "Press"
    THEN << Push("button", ButtonEvent(event.button, "Pressed")) >>
  ELSE IF event.tag = "Release"
    THEN << Push("button", ButtonEvent(event.button, "Released")) >>
  ELSE IF event.tag = "Move" /\ event.motion = "MouseCursor"
    THEN << Push("mouse_motion", << event.x, event.y >>) >>
  ELSE IF event.tag = "Move" /\ event.motion = "MouseScroll"
    THEN << Push("mouse_wheel", << event.x, event.y >>) >>
  ELSE IF event.tag = "Move"
    THEN << >>
  ELSE IF event.tag = "Text"
    THEN << Push("text", event.text) >>
  ELSE IF event.tag = "Resize"
    THEN << Push("window_size", << event.width, event.height >>) >>
  ELSE << Push("focus", event.flag) >>

(* ---------------- StreamingWindow accessors ---------------- *)
SignalAccessors == {"position", "size", "cursor", "wheel", "focus"}

\* the sink whose stream the accessor composes
SinkOf(acc) ==
  CASE acc = "position" -> "window_position"
    [] acc = "size"     -> "window_size"
    [] acc = "cursor"   -> "mouse_motion"
    [] acc = "wheel"    -> "mouse_wheel"
    [] acc = "focus"    -> "focus"

\* the initial value given to hold / scan
Seed(acc) == IF acc = "focus" THEN TRUE ELSE << 0, 0 >>

\* the value of the accessor's signal after its stream fires v
Combine(acc, old, v) ==
  IF acc = "wheel" THEN << old[1] + v[1], old[2] + v[2] >> ELSE v

\* a new signal, as each accessor call builds one: stream().hold(seed) or
\* stream().scan(seed, f) starts from the seed and sees later pushes only
NewSignal(acc) == [acc |-> acc, val |-> Seed(acc)]

\* Sink::send: every signal listening to the sink's stream is updated
Send(sigs, push) ==
  [i \in DOMAIN sigs |->
     IF SinkOf(sigs[i].acc) = push.sink
       THEN [sigs[i] EXCEPT !.val = Combine(sigs[i].acc, @, push.val)]
       ELSE sigs[i]]

RECURSIVE SendAll(_, _)
SendAll(sigs, pushes) ==
  IF pushes = << >> THEN sigs
  ELSE SendAll(Send(sigs, Head(pushes)), Tail(pushes))

\* the record of what was pushed on the channels, kept beside the sinks
HoldSinks == {"window_position", "window_size", "mouse_motion", "focus"}

SinkDefault(sink) == IF sink = "focus" THEN TRUE ELSE << 0, 0 >>

LatestAfter(l, pushes) ==
  [k \in HoldSinks |->
     IF pushes # << >> /\ pushes[1].sink = k THEN pushes[1].val ELSE l[k]]

TotalAfter(t, pushes) ==
  IF pushes # << >> /\ pushes[1].sink = "mouse_wheel"
    THEN << t[1] + pushes[1].val[1], t[2] + pushes[1].val[2] >>
    ELSE t

(* ---------------- EventSource adapters ---------------- *)
\* the RwLock adapter taking the read lock for poll_event too
AcquireModeRead(a, op) ==
  CASE a = "RefCell" -> IF op = "should_close" THEN "borrow" ELSE "borrow_mut"
    [] a = "RwLock"  -> "read"
    [] a = "Mutex"   -> "lock"

\* the guard each adapter takes for an operation
AcquireMode(a, op) ==
  CASE a = "RefCell" -> IF op = "should_close" THEN "borrow" ELSE "borrow_mut"
    [] a = "RwLock"  -> IF op = "should_close" THEN "read" ELSE "write"
    [] a = "Mutex"   -> "lock"

SharedMode(m) == m \in {"borrow", "read"}

Compatible(m1, m2) ==
  m1 = "none" \/ m2 = "none" \/ (SharedMode(m1) /\ SharedMode(m2))

(* ---------------- run_with arithmetic ---------------- *)
\* an assertion that rejects zero only
PreconditionNonZero(f) == f # 0

\* the assertion of line 124
Precondition(f) == f > 0

\* `as u64` of a quotient: a negative one gives 0
AsU64(q) == IF q < 0 THEN 0 ELSE q

TickLength(f) == AsU64(NsPerSec \div f)

\* next_tick advanced by one tick at most, however late the loop is
DeltaOneTick(diff, tl) == IF diff >= tl THEN tl ELSE 0

\* next_tick moved to the first tick boundary after the time sampled
DeltaNextBoundary(diff, tl) == diff - (diff % tl) + tl

\* lines 131-132
Delta(diff, tl) == diff - (diff % tl)

\* `as u32`: the value modulo 2^32
AsU32(x) == x - ((x \div 65536) \div 65536) * 65536 * 65536

SleepArg(nt, t) == AsU32(nt - t)

Init ==
  /\ adapter \in Adapters
  /\ pc = "idle"
  /\ fps = 0 /\ tick_length = 0 /\ time = 0 /\ next_tick = 0
  /\ guard = "none"
  /\ clock = 0
  /\ queue = << >>
  /\ closed = FALSE
  /\ poisoned = FALSE
  /\ otherGuard = "none"
  /\ arrived = 0
  /\ signals = << >>
  /\ runs = 0
  /\ touched = {}
  /\ nCloseFalse = 0 /\ iters = 0 /\ lastClose = "none"
  /\ sawNone = FALSE /\ branch = "none" /\ iterStart = 0
  /\ rendersIter = 0 /\ drainsIter = 0
  /\ lastSeq = 0 /\ lastEvent = NoEvent /\ lastPushes = << >>
  /\ latest = [k \in HoldSinks |-> SinkDefault(k)]
  /\ wheelTotal = << 0, 0 >>
  /\ lastRenderAt = 0 - 1 /\ renderGap = 0 - 1 /\ slept = 0 - 1

(* ---------------- SourceWindow::run_with ---------------- *)
\* a loop that runs its body before the first test of should_close
LoopEntryBody == "sample"

\* `while` of line 128: the condition is tested before the body is entered
LoopEntry == "check"

\* lines 124-127: the assertion and the locals
Call(f) ==
  /\ pc = "idle"
  /\ runs < MaxRuns
  /\ adapter = "RefCell" => otherGuard = "none"
  /\ runs' = runs + 1
  /\ fps' = f
  /\ IF Precondition(f)
       THEN /\ tick_length' = TickLength(f)
            /\ time' = clock
            /\ next_tick' = clock
            /\ pc' = LoopEntry
       ELSE /\ pc' = "failed"
            /\ UNCHANGED << tick_length, time, next_tick >>
  /\ touched' = {}
  /\ nCloseFalse' = 0 /\ iters' = 0 /\ lastClose' = "none"
  /\ sawNone' = FALSE /\ branch' = "none" /\ iterStart' = 0
  /\ rendersIter' = 0 /\ drainsIter' = 0
  /\ lastRenderAt' = 0 - 1 /\ renderGap' = 0 - 1 /\ slept' = 0 - 1
  /\ UNCHANGED << adapter, guard, envVars, signals, dispObs >>

\* the adapter takes its guard for op; unwrap() panics on a poisoned lock
Acquire(op, inside) ==
  /\ touched' = touched \cup {op}
  /\ IF adapter # "RefCell" /\ poisoned
       THEN /\ pc' = "panicked"
            /\ UNCHANGED guard
       ELSE /\ Compatible(AcquireMode(adapter, op), otherGuard)
            /\ guard' = AcquireMode(adapter, op)
            /\ pc' = inside

\* line 128, entering self.source.should_close()
CloseAcquire ==
  /\ pc = "check"
  /\ nCloseFalse < MaxIters \/ closed
  /\ Acquire("should_close", "in_close")
  /\ UNCHANGED << adapter, fps, tick_length, time, next_tick, envVars,
                  signals, runs, nCloseFalse, iters, lastClose, iterObs,
                  dispObs, timeObs >>

\* the negation of the loop condition left out
LoopContinuesFlipped(c) == c

\* the loop condition of line 128
LoopContinues(c) == ~c

\* line 128, should_close() returns and the guard is dropped
CloseReturn ==
  /\ pc = "in_close"
  /\ guard' = "none"
  /\ lastClose' = IF closed THEN "true" ELSE "false"
  /\ IF LoopContinues(closed)
       THEN /\ pc' = "sample"
            /\ nCloseFalse' = nCloseFalse + 1
       ELSE /\ pc' = "idle"
            /\ UNCHANGED nCloseFalse
  /\ UNCHANGED << adapter, fps, tick_length, time, next_tick, envVars,
                  signals, runs, touched, iters, iterObs, dispObs, timeObs >>

\* the test of line 130
TickDue(t, nt) == t >= nt

\* lines 129-133 and 139-141: sample the time, then either advance
\* next_tick or sleep
Sample ==
  /\ pc = "sample"
  /\ time' = clock
  /\ iterStart' = next_tick
  /\ sawNone' = FALSE /\ rendersIter' = 0 /\ drainsIter' = 0
  /\ IF TickDue(clock, next_tick)
       THEN /\ branch' = "tick"
            /\ IF tick_length = 0
                 THEN /\ pc' = "panicked"   \* remainder with a divisor of zero
                      /\ UNCHANGED next_tick
                 ELSE /\ next_tick' = next_tick + Delta(clock - next_tick, tick_length)
                      /\ pc' = "drain"
            /\ UNCHANGED << iters, slept >>
       ELSE /\ branch' = "sleep"
            /\ slept' = SleepArg(next_tick, clock)
            /\ iters' = iters + 1
            /\ pc' = "check"
            /\ UNCHANGED next_tick
  /\ UNCHANGED << adapter, fps, tick_length, guard, envVars, signals, runs,
                  touched, nCloseFalse, lastClose, dispObs, lastRenderAt,
                  renderGap >>

\* line 134, entering self.source.poll_event()
PollAcquire ==
  /\ pc = "drain"
  /\ Acquire("poll_event", "in_poll")
  /\ UNCHANGED << adapter, fps, tick_length, time, next_tick, envVars,
                  signals, runs, nCloseFalse, iters, lastClose, iterObs,
                  dispObs, timeObs >>

\* Window::poll_event on a non-empty queue: the event returned and the
\* events left
PollEvent(q) == [event |-> Head(q), rest |-> Tail(q)]

\* `if let` in place of `while let`: one event a tick
AfterDispatchOnce == "render"

\* a drain that goes back to the test of should_close once the window
\* wants to close
AfterDispatchUnlessClosed == IF closed' THEN "check" ELSE "drain"

\* `while let` of line 134: after a dispatch the drain polls again
AfterDispatch == "drain"

\* lines 134-136: poll_event() returns and the guard is dropped; an event
\* is dispatched, none ends the drain.  The window may take note of a close
\* request while it is polled.
PollReturn ==
  /\ pc = "in_poll"
  /\ guard' = "none"
  /\ \E c \in {closed, TRUE} : closed' = c
  /\ IF queue = << >>
       THEN /\ sawNone' = TRUE
            /\ drainsIter' = drainsIter + 1
            /\ pc' = "render"
            /\ UNCHANGED << queue, signals, dispObs, touched >>
       ELSE /\ queue' = PollEvent(queue).rest
            /\ lastSeq' = PollEvent(queue).event.seq
            /\ lastEvent' = PollEvent(queue).event.ev
            /\ lastPushes' = Dispatch(PollEvent(queue).event.ev)
            /\ signals' = SendAll(signals, Dispatch(PollEvent(queue).event.ev))
            /\ touched' = touched \cup
                 (IF Dispatch(PollEvent(queue).event.ev) = << >>
                    THEN {} ELSE {"push"})
            /\ latest' = LatestAfter(latest, Dispatch(PollEvent(queue).event.ev))
            /\ wheelTotal' = TotalAfter(wheelTotal, Dispatch(PollEvent(queue).event.ev))
            /\ pc' = AfterDispatch
            /\ UNCHANGED << sawNone, drainsIter >>
  /\ UNCHANGED << adapter, fps, tick_length, time, next_tick, clock,
                  poisoned, otherGuard, arrived, runs, nCloseFalse, iters,
                  lastClose, branch, iterStart, rendersIter, timeObs >>

\* line 137, render() is entered
RenderCall ==
  /\ pc = "render"
  /\ pc' = "in_render"
  /\ touched' = touched \cup {"render"}
  /\ rendersIter' = rendersIter + 1
  /\ renderGap' = IF lastRenderAt < 0 THEN 0 - 1 ELSE clock - lastRenderAt
  /\ lastRenderAt' = clock
  /\ UNCHANGED << adapter, fps, tick_length, time, next_tick, guard, envVars,
                  signals, runs, nCloseFalse, iters, lastClose, sawNone,
                  branch, iterStart, drainsIter, dispObs, slept >>

\* line 137, render() returns: the loop body is complete
RenderReturn ==
  /\ pc = "in_render"
  /\ adapter = "RefCell" => otherGuard = "none"
  /\ pc' = "check"
  /\ iters' = iters + 1
  /\ UNCHANGED << adapter, fps, tick_length, time, next_tick, guard, envVars,
                  signals, runs, touched, nCloseFalse, lastClose, iterObs,
                  dispObs, timeObs >>

(* ---------------- StreamingWindow ---------------- *)
\* an accessor is called (&self: never while run_with holds &mut self)
GetSignal(acc) ==
  /\ pc = "idle"
  /\ Len(signals) < MaxSignals
  /\ signals' = Append(signals, NewSignal(acc))
  /\ UNCHANGED << adapter, schedVars, envVars, runs, runObs, iterObs,
                  dispObs, timeObs >>

(* ---------------- the window, the clock, other holders ---------------- *)
\* precise_time_ns() is monotonic; the time that passes outside run_with
\* is not followed (run_with starts from the clock it finds)
Elapse(d) ==
  /\ pc \notin {"idle", "failed", "panicked"}
  /\ clock + d <= MaxTime
  /\ clock' = clock + d
  /\ UNCHANGED << adapter, schedVars, queue, closed, poisoned, otherGuard,
                  arrived, signals, runs, runObs, iterObs, dispObs, timeObs >>

\* the window system queues an event on the window, max in a behaviour
OsEvent(i, max) ==
  /\ arrived < max
  /\ arrived' = arrived + 1
  /\ queue' = Append(queue, [seq |-> arrived + 1, ev |-> EventList[i]])
  /\ UNCHANGED << adapter, schedVars, clock, closed, poisoned, otherGuard,
                  signals, runs, runObs, iterObs, dispObs, timeObs >>

\* another holder of the shared handle takes a guard: another thread for
\* Arc<RwLock> and Arc<Mutex>; for Rc<RefCell> code of the same thread,
\* which runs only while run_with does not (before the call, in render)
OtherAcquire(m) ==
  /\ otherGuard = "none"
  /\ m \in {AcquireMode(adapter, "should_close"), AcquireMode(adapter, "poll_event")}
  /\ adapter = "RefCell" => pc \in {"idle", "in_render"}
  /\ Compatible(m, guard)
  /\ otherGuard' = m
  /\ UNCHANGED << adapter, schedVars, clock, queue, closed, poisoned, arrived,
                  signals, runs, runObs, iterObs, dispObs, timeObs >>

\* the other holder changes the window through its exclusive guard
OtherSetClose(b) ==
  /\ otherGuard # "none" /\ ~SharedMode(otherGuard)
  /\ closed # b
  /\ closed' = b
  /\ UNCHANGED << adapter, schedVars, clock, queue, poisoned, otherGuard,
                  arrived, signals, runs, runObs, iterObs, dispObs, timeObs >>

OtherRelease ==
  /\ otherGuard # "none"
  /\ otherGuard' = "none"
  /\ UNCHANGED << adapter, schedVars, clock, queue, closed, poisoned, arrived,
                  signals, runs, runObs, iterObs, dispObs, timeObs >>

\* another thread panics while it holds the lock: a Mutex is poisoned by
\* any holder, an RwLock by a writer
OtherPanic ==
  /\ adapter # "RefCell"
  /\ otherGuard # "none" /\ ~SharedMode(otherGuard)
  /\ ~poisoned
  /\ otherGuard' = "none"
  /\ poisoned' = TRUE
  /\ UNCHANGED << adapter, schedVars, clock, queue, closed, arrived,
                  signals, runs, runObs, iterObs, dispObs, timeObs >>

\* The loop with the three adapters and the other holders of the handle;
\* the window delivers the first SchedKinds kinds of event.  The clock
\* stands still: the path through the loop does not depend on its reading
\* (next_tick never exceeds the time sampled).
Next ==
  \/ \E f \in FpsValues : Call(f)
  \/ CloseAcquire
  \/ CloseReturn
  \/ Sample
  \/ PollAcquire
  \/ PollReturn
  \/ RenderCall
  \/ RenderReturn
  \/ \E i \in 1..SchedKinds : OsEvent(i, MaxEvents)
  \/ \E m \in {"borrow", "borrow_mut", "read", "write", "lock"} : OtherAcquire(m)
  \/ \E b \in BOOLEAN : OtherSetClose(b)
  \/ OtherRelease
  \/ OtherPanic

Spec == Init /\ [][Next]_vars

\* The loop against the clock: one adapter and no other holder of the handle
InitTiming == Init /\ adapter = "RefCell"

NextTiming ==
  \/ \E f \in FpsValues : Call(f)
  \/ CloseAcquire
  \/ CloseReturn
  \/ Sample
  \/ PollAcquire
  \/ PollReturn
  \/ RenderCall
  \/ RenderReturn
  \/ \E d \in ClockSteps : Elapse(d)
  \/ \E i \in 1..SchedKinds : OsEvent(i, MaxEvents)

SpecTiming == InitTiming /\ [][NextTiming]_vars

\* The loop alone on its thread, which runs on: each step of the drain and
\* the call of render are taken when they can be
SpecTimingLive ==
  /\ SpecTiming
  /\ WF_vars(PollAcquire) /\ WF_vars(PollReturn) /\ WF_vars(RenderCall)

\* The else branch of line 139 as a function of its inputs: run_with at
\* line 129 of its first iteration, at 10 fps, with next_tick ahead of the
\* reading the clock is about to give by one of SleepGaps (1.5 ms, 50 ms,
\* 250 ms).  The branch runs on such readings only.
SleepGaps == {1500000, 50000000, 250000000}

InitSleep ==
  /\ adapter = "RefCell"
  /\ pc = "sample"
  /\ fps = 10 /\ tick_length = TickLength(10)
  /\ clock = 0 /\ time = 0
  /\ next_tick \in {clock + g : g \in SleepGaps}
  /\ guard = "none"
  /\ queue = << >>
  /\ closed = FALSE
  /\ poisoned = FALSE
  /\ otherGuard = "none"
  /\ arrived = 0
  /\ signals = << >>
  /\ runs = 1
  /\ touched = {"should_close"}
  /\ nCloseFalse = 1 /\ iters = 0 /\ lastClose = "false"
  /\ sawNone = FALSE /\ branch = "none" /\ iterStart = 0
  /\ rendersIter = 0 /\ drainsIter = 0
  /\ lastSeq = 0 /\ lastEvent = NoEvent /\ lastPushes = << >>
  /\ latest = [k \in HoldSinks |-> SinkDefault(k)]
  /\ wheelTotal = << 0, 0 >>
  /\ lastRenderAt = 0 - 1 /\ renderGap = 0 - 1 /\ slept = 0 - 1

SpecSleep == InitSleep /\ [][NextTiming]_vars

\* The dispatcher and the signals: every kind of event, the accessors called
\* between runs, one adapter, 60 fps and a clock that stands still
InitSignals == Init /\ adapter = "RefCell"

NextSignals ==
  \/ Call(60)
  \/ CloseAcquire
  \/ CloseReturn
  \/ Sample
  \/ PollAcquire
  \/ PollReturn
  \/ RenderCall
  \/ RenderReturn
  \/ \E acc \in SignalAccessors : GetSignal(acc)
  \/ \E i \in DOMAIN EventList : OsEvent(i, MaxSigEvents)

SpecSignals == InitSignals /\ [][NextSignals]_vars

(* ======================= properties ======================= *)

InLoopBody == pc \in {"sample", "drain", "in_poll", "render", "in_render"}

\* C1: within one tick the events are dispatched in the order of their
\* arrival, none skipped; render is invoked only once poll_event has
\* reported none, once in the tick; an event queued once the drain is over
\* is not dispatched before a later tick.
C1_DrainThenRender ==
  /\ [](/\ \A k \in 1..Len(queue) : queue[k].seq = lastSeq + k
        /\ lastSeq + Len(queue) = arrived
        /\ pc \in {"render", "in_render"} => sawNone /\ drainsIter = 1
        /\ rendersIter <= 1
        /\ pc = "render" => rendersIter = 0)
  /\ [][/\ lastSeq' # lastSeq =>
             /\ lastSeq' = lastSeq + 1
             /\ pc = "in_poll" /\ ~sawNone /\ rendersIter = 0
        /\ sawNone /\ sawNone' => lastSeq' = lastSeq]_vars

\* one event dispatched in the first tick, render begun, a second event
\* queued behind it
C1_Witness ==
  /\ pc = "in_render" /\ iters = 0 /\ rendersIter = 1
  /\ lastSeq = 1 /\ Len(queue) = 1

\* C2: when should_close returns false K times and then true, run_with has
\* completed exactly K loop bodies and returns; no render is invoked once
\* should_close has returned true.
C2_StopsAfterK ==
  /\ [](/\ lastClose = "true" => pc = "idle" /\ iters = nCloseFalse
        /\ pc = "idle" /\ runs > 0 => lastClose = "true"
        /\ InLoopBody => lastClose = "false" /\ nCloseFalse = iters + 1
        /\ pc \in {"check", "in_close"} => iters = nCloseFalse)
  /\ [][pc' = "in_render" /\ pc # "in_render" => lastClose = "false"]_vars

\* K = 2: two iterations, then the return
C2_Witness ==
  pc = "idle" /\ lastClose = "true" /\ nCloseFalse = 2 /\ iters = 2

\* C3: run_with with fps <= 0 fails at once: should_close, poll_event and
\* render are not invoked, nothing is pushed, and nothing follows.
C3_RejectsNonPositiveFps ==
  /\ [](pc = "failed" =>
          fps <= 0 /\ touched = {} /\ nCloseFalse = 0 /\ iters = 0)
  /\ [][/\ pc = "idle" /\ runs' # runs /\ fps' <= 0 => pc' = "failed"
        /\ pc = "failed" =>
             /\ pc' = "failed"
             /\ signals' = signals /\ latest' = latest
             /\ wheelTotal' = wheelTotal /\ lastSeq' = lastSeq]_vars

C3_Witness == pc = "failed" /\ fps = 0 - 5 /\ arrived > 0

\* C4: in a tick iteration next_tick is advanced by the largest whole
\* multiple of tick_length that is no more than now - next_tick; the queue
\* is drained once and render invoked once in the iteration.
C4_DriftCorrection ==
  /\ branch = "tick" /\ pc \in {"drain", "in_poll", "render", "in_render", "check"} =>
       /\ next_tick >= iterStart
       /\ (next_tick - iterStart) % tick_length = 0
       /\ next_tick <= time
       /\ time - next_tick < tick_length
  /\ drainsIter <= 1 /\ rendersIter <= 1
  /\ branch = "tick" /\ pc = "check" => drainsIter = 1 /\ rendersIter = 1

\* tick_length 100 ms, the time sampled 250 ms past next_tick: 200 ms
C4_Witness ==
  /\ pc = "check" /\ branch = "tick" /\ tick_length = 100000000
  /\ time - iterStart = 250000000
  /\ next_tick - iterStart = 200000000
  /\ drainsIter = 1 /\ rendersIter = 1

\* C5: dispatch makes at most one push, on the channel of the mapping
\* table and with its value; a motion other than cursor and scroll makes
\* none.
C5_MappingTable ==
  /\ Len(lastPushes) <= 1
  /\ lastEvent.tag = "Press" =>
       lastPushes = << [sink |-> "button",
                        val |-> [button |-> lastEvent.button, state |-> "Pressed"]] >>
  /\ lastEvent.tag = "Release" =>
       lastPushes = << [sink |-> "button",
                        val |-> [button |-> lastEvent.button, state |-> "Released"]] >>
  /\ lastEvent.tag = "Move" =>
       /\ lastEvent.motion = "MouseCursor" =>
            lastPushes = << [sink |-> "mouse_motion", val |-> << lastEvent.x, lastEvent.y >>] >>
       /\ lastEvent.motion = "MouseScroll" =>
            lastPushes = << [sink |-> "mouse_wheel", val |-> << lastEvent.x, lastEvent.y >>] >>
       /\ lastEvent.motion \notin {"MouseCursor", "MouseScroll"} => lastPushes = << >>
  /\ lastEvent.tag = "Text" =>
       lastPushes = << [sink |-> "text", val |-> lastEvent.text] >>
  /\ lastEvent.tag = "Resize" =>
       lastPushes = << [sink |-> "window_size",
                        val |-> << lastEvent.width, lastEvent.height >>] >>
  /\ lastEvent.tag = "Focus" =>
       lastPushes = << [sink |-> "focus", val |-> lastEvent.flag] >>

\* a scroll event was dispatched: one push, on the wheel channel
C5_Witness ==
  /\ lastSeq = 1 /\ lastEvent.tag = "Move" /\ lastEvent.motion = "MouseScroll"
  /\ Len(lastPushes) = 1

\* C6: every hold signal the window has handed out reads the latest value
\* pushed on its channel, or the default when nothing was pushed.
C6_HoldReadsLatestPush ==
  \A i \in DOMAIN signals :
    signals[i].acc # "wheel" => signals[i].val = latest[SinkOf(signals[i].acc)]

\* C7: every wheel signal reads the sum of all scroll deltas dispatched
\* since the window was created.
C7_WheelIsTotal ==
  \A i \in DOMAIN signals :
    signals[i].acc = "wheel" => signals[i].val = wheelTotal

\* C8: two consecutive render invocations of a run are at least
\* tick_length apart on the clock.
C8_RenderPaced == renderGap < 0 \/ renderGap >= tick_length

\* C9: the thread in run_with holds a guard exactly while it is inside
\* should_close or poll_event; RefCell: borrow / borrow_mut, RwLock: read /
\* write, Mutex: the lock for both.
C9_GuardPerCall ==
  /\ guard # "none" <=> pc \in {"in_close", "in_poll"}
  /\ pc = "in_close" =>
       guard = CASE adapter = "RefCell" -> "borrow"
                 [] adapter = "RwLock"  -> "read"
                 [] adapter = "Mutex"   -> "lock"
  /\ pc = "in_poll" =>
       guard = CASE adapter = "RefCell" -> "borrow_mut"
                 [] adapter = "RwLock"  -> "write"
                 [] adapter = "Mutex"   -> "lock"

\* should_close has returned false, poll_event is not yet called, and
\* another thread holds the write lock and has set the close flag
C9_Witness ==
  /\ adapter = "RwLock" /\ pc = "drain" /\ guard = "none"
  /\ lastClose = "false" /\ "poll_event" \notin touched
  /\ otherGuard = "write" /\ closed

\* C10: two signals obtained from the same accessor read the same value.
C10_SameAccessorSameValue ==
  \A i, j \in DOMAIN signals :
    signals[i].acc = signals[j].acc => signals[i].val = signals[j].val

\* C11: every poll_event call and every dispatch follows, in its iteration,
\* a should_close call that returned false; once should_close has
\* returned true the run polls and dispatches no more.
C11_CloseCheckedBeforePoll ==
  /\ [](/\ pc \in {"drain", "in_poll"} => lastClose = "false"
        /\ pc \in {"drain", "in_poll"} => nCloseFalse = iters + 1
        /\ "poll_event" \in touched => "should_close" \in touched)
  /\ [][/\ lastSeq' # lastSeq => lastClose = "false"
        /\ lastClose = "true" /\ runs' = runs =>
             /\ lastSeq' = lastSeq
             /\ touched' = touched
             /\ pc' = "idle"]_vars

\* the second iteration polls after its own should_close call
C11_Witness ==
  pc = "in_poll" /\ iters = 1 /\ nCloseFalse = 2 /\ lastClose = "false"

SignalOfEvent(event) ==
  IF event.tag = "Move" /\ event.motion = "MouseCursor" THEN "cursor"
  ELSE IF event.tag = "Move" /\ event.motion = "MouseScroll" THEN "wheel"
  ELSE IF event.tag = "Resize" THEN "size"
  ELSE IF event.tag = "Focus" THEN "focus"
  ELSE "none"

\* C13: a dispatch changes the signals of its own category only (a cursor
\* move the cursor signals, ...); a button, text or other motion event
\* changes no signal; no other step changes the value of a signal.
C13_DispatchFrame ==
  [][/\ \A i \in DOMAIN signals :
          signals'[i] # signals[i] =>
            /\ lastSeq' # lastSeq
            /\ signals[i].acc = SignalOfEvent(lastEvent')
     /\ \A k \in HoldSinks :
          latest'[k] # latest[k] =>
            /\ lastSeq' # lastSeq
            /\ \E a \in SignalAccessors :
                 a = SignalOfEvent(lastEvent') /\ SinkOf(a) = k
     /\ wheelTotal' # wheelTotal =>
          lastSeq' # lastSeq /\ SignalOfEvent(lastEvent') = "wheel"]_vars

\* a cursor move was dispatched: the cursor signal follows, the size signal
\* obtained with it stays at its default
C13_Witness ==
  /\ lastSeq = 1 /\ lastEvent.tag = "Move" /\ lastEvent.motion = "MouseCursor"
  /\ Len(signals) = 2
  /\ signals[1].acc = "cursor" /\ signals[1].val = << 1, 2 >>
  /\ signals[2].acc = "size" /\ signals[2].val = << 0, 0 >>

\* C14: every position signal reads (0,0): nothing is pushed on the
\* window-position channel.
C14_PositionStaysDefault ==
  /\ latest["window_position"] = << 0, 0 >>
  /\ \A i \in 1..Len(lastPushes) : lastPushes[i].sink # "window_position"
  /\ \A i \in DOMAIN signals :
       signals[i].acc = "position" => signals[i].val = << 0, 0 >>

\* a position signal was obtained, then a resize dispatched
C14_Witness ==
  /\ Len(signals) >= 1 /\ signals[1].acc = "position"
  /\ lastSeq = 1 /\ lastEvent.tag = "Resize"

C16_TickLengthPositive ==
  /\ pc \notin {"idle", "failed"} => tick_length >= 1
  /\ pc # "panicked"

\* C17: a drain goes on to render once poll_event reports none; it does not
\* test should_close: while events are queued it polls again, closed or
\* not, and the run returns only from a test of should_close made after
\* the render of the iteration.
C17_DrainEndsInRender ==
  /\ (pc = "drain") ~> (pc = "in_render")
  /\ [](pc = "in_close" /\ iters > 0 => rendersIter = 1)
  /\ [][/\ pc \in {"drain", "in_poll"} =>
             /\ lastClose' = lastClose
             /\ pc' \in {"drain", "in_poll", "render"}
        /\ pc = "in_poll" /\ pc' # pc =>
             pc' = IF queue = << >> THEN "render" ELSE "drain"
        /\ pc' = "idle" /\ pc # "idle" => pc = "in_close"]_vars

\* the close request came up while the drain was dispatching; the render
\* of the tick runs all the same
C17_Witness ==
  pc = "in_render" /\ closed /\ lastClose = "false" /\ lastSeq >= 1 /\ iters = 0

====
